---- MODULE Spec2Model ----
(***************************************************************************)
(* Model of the fragrance scraping services of ibaytar/fragcrawl.          *)
(*                                                                         *)
(*   api.py         process_url (fetch, parse, normalize one URL) and the  *)
(*                  batch endpoint scrape_fragrances (shared crawler       *)
(*                  session, asyncio.gather over the units, partition).    *)
(*                                                                         *)
(* Python str values that the code parses (URLs, title, sex) are sequences *)
(* of one-character strings; a dict is a function whose DOMAIN is its key  *)
(* set; a parsed JSON value is a record tagged by its field "json".        *)
(***************************************************************************)
EXTENDS Naturals, Sequences, FiniteSets, TLC

VARIABLES
    service,     \* the program that runs: "api" (api.py), "simple"
                 \* (simple_api.py) or "cli" (app.py)
    urls,        \* request.urls, as a sequence of str
    page,        \* what crawler.arun yields for each unit on an open session;
                 \* under "simple", how the scraper subprocess of each URL ends
    svc,         \* position of the scrape_fragrances handler
    session,     \* the AsyncWebCrawler of this batch: "none", "open", "closed"
    opens,       \* number of times the session was entered
    closes,      \* number of times the session was exited
    unit,        \* position of each process_url coroutine
    fetchOn,     \* session state seen by each unit's arun call
    outcome,     \* the dict each process_url coroutine returned
    ran,         \* the stages of process_url each unit executed
    processed,   \* processed_results, the list asyncio.gather returned
    results,     \* results list of the handler
    errors,      \* errors list of the handler
    response,    \* the ScrapeResponse returned to the caller
    output_file, \* app.py: the --output argument, None written <<>>
    stdout,      \* app.py: what extract_fragrance_data printed
    outfile,     \* app.py: the file at the output path
    result_data, \* app.py: result_data of extract_fragrance_data
    completed    \* the units in the order in which they returned

\* the state of the command line program of app.py
cliVars == <<output_file, stdout, outfile, result_data>>

vars == <<service, urls, page, svc, session, opens, closes, unit, fetchOn, outcome,
          ran, processed, results, errors, response, cliVars, completed>>

(***************************************************************************)
(* Bounds of the model.                                                    *)
(***************************************************************************)
MaxUrls == 2
MaxNotes == 2
MaxAccords == 2
MaxTokens == 3

\* pieces a title is made of
MaxPieces == 3

(***************************************************************************)
(* Python str methods on sequences of characters.                          *)
(***************************************************************************)
Digits == {"0", "1", "2", "3", "4", "5", "6", "7", "8", "9"}

\* s[i..] starts with sub
StartsAt(s, i, sub) ==
    /\ i + Len(sub) - 1 <= Len(s)
    /\ \A k \in 1..Len(sub) : s[i + k - 1] = sub[k]

\* str.find: index of the first occurrence of sub in s, 0 when there is none
Find(s, sub) ==
    LET hits == {i \in 1..Len(s) : StartsAt(s, i, sub)}
    IN  IF hits = {} THEN 0 ELSE CHOOSE i \in hits : \A j \in hits : i <= j

\* s[from..], the empty str when from is past the end
Tail_(s, from) == SubSeq(s, from, Len(s))

\* str.split(sep) for a non-empty separator
RECURSIVE SplitStr(_, _)
SplitStr(s, sep) ==
    LET i == Find(s, sep)
    IN  IF i = 0 THEN <<s>>
        ELSE <<SubSeq(s, 1, i - 1)>> \o SplitStr(Tail_(s, i + Len(sep)), sep)

\* str.replace(old, new) for a non-empty old: every occurrence, left to right
RECURSIVE ReplaceStr(_, _, _)
ReplaceStr(s, old, new) ==
    LET i == Find(s, old)
    IN  IF i = 0 THEN s
        ELSE SubSeq(s, 1, i - 1) \o new \o ReplaceStr(Tail_(s, i + Len(old)), old, new)

\* sep.join(parts)
RECURSIVE JoinStr(_, _)
JoinStr(sep, parts) ==
    IF parts = <<>> THEN <<>>
    ELSE IF Len(parts) = 1 THEN parts[1]
    ELSE parts[1] \o sep \o JoinStr(sep, Tail(parts))

\* str.isdigit
IsDigit(s) == Len(s) > 0 /\ \A k \in 1..Len(s) : s[k] \in Digits

\* the part of s before the first character of stops, all of s when none occurs
CutAtAny(s, stops) ==
    LET hits == {i \in 1..Len(s) : s[i] \in stops}
    IN  IF hits = {} THEN s
        ELSE SubSeq(s, 1, (CHOOSE i \in hits : \A j \in hits : i <= j) - 1)

\* urlparse(url).path for scheme://netloc/path?query#fragment
UrlPath(url) ==
    LET c == Find(url, <<":", "/", "/">>)
        afterNetloc ==
            IF c = 0 THEN url
            ELSE LET rest == Tail_(url, c + 3)
                     hits == {i \in 1..Len(rest) : rest[i] \in {"/", "?", "#"}}
                 IN  IF hits = {} THEN <<>>
                     ELSE Tail_(rest, CHOOSE i \in hits : \A j \in hits : i <= j)
    IN  CutAtAny(afterNetloc, {"?", "#"})

\* the characters the percent escapes of the modelled URLs stand for
PercentTable(hex) ==
    IF hex = <<"2", "0">> THEN <<" ">>
    ELSE IF hex = <<"2", "D">> THEN <<"-">>
    ELSE IF hex = <<"2", "F">> THEN <<"/">>
    ELSE <<"%">> \o hex

\* urllib.parse.unquote: every %XX replaced by the character it encodes
RECURSIVE Unquote(_)
Unquote(s) ==
    IF s = <<>> THEN <<>>
    ELSE IF s[1] = "%" /\ Len(s) >= 3
         THEN PercentTable(SubSeq(s, 2, 3)) \o Unquote(Tail_(s, 4))
         ELSE <<s[1]>> \o Unquote(Tail(s))

(***************************************************************************)
(* The str literals of process_url's messages (api.py lines 190, 198, 203, *)
(* 281) and str(e) of the exceptions its statements raise.                 *)
(***************************************************************************)
\* "Failed to crawl "
FailedToCrawl ==
    <<"F", "a", "i", "l", "e", "d", " ", "t", "o", " ", "c", "r", "a", "w",
      "l", " ">>

\* "Failed to parse JSON from "
FailedToParse ==
    <<"F", "a", "i", "l", "e", "d", " ", "t", "o", " ", "p", "a", "r", "s",
      "e", " ", "J", "S", "O", "N", " ", "f", "r", "o", "m", " ">>

\* "No data extracted from "
NoDataExtracted ==
    <<"N", "o", " ", "d", "a", "t", "a", " ", "e", "x", "t", "r", "a", "c",
      "t", "e", "d", " ", "f", "r", "o", "m", " ">>

\* "Error processing "
ErrorProcessing ==
    <<"E", "r", "r", "o", "r", " ", "p", "r", "o", "c", "e", "s", "s", "i",
      "n", "g", " ">>

\* ": "
ColonSpace ==
    <<":", " ">>

\* "Expecting value: line 1 column 1 (char 0)"
ExpectingValue ==
    <<"E", "x", "p", "e", "c", "t", "i", "n", "g", " ", "v", "a", "l", "u",
      "e", ":", " ", "l", "i", "n", "e", " ", "1", " ", "c", "o", "l", "u",
      "m", "n", " ", "1", " ", "(", "c", "h", "a", "r", " ", "0", ")">>

\* "the JSON object must be str, bytes or bytearray, not NoneType"
NotNoneType ==
    <<"t", "h", "e", " ", "J", "S", "O", "N", " ", "o", "b", "j", "e", "c",
      "t", " ", "m", "u", "s", "t", " ", "b", "e", " ", "s", "t", "r", ",",
      " ", "b", "y", "t", "e", "s", " ", "o", "r", " ", "b", "y", "t", "e",
      "a", "r", "r", "a", "y", ",", " ", "n", "o", "t", " ", "N", "o", "n",
      "e", "T", "y", "p", "e">>

\* "object of type 'int' has no len()"
NoLen ==
    <<"o", "b", "j", "e", "c", "t", " ", "o", "f", " ", "t", "y", "p", "e",
      " ", "'", "i", "n", "t", "'", " ", "h", "a", "s", " ", "n", "o", " ",
      "l", "e", "n", "(", ")">>

\* "0"
KeyZero ==
    <<"0">>

\* "argument of type 'int' is not iterable"
NotIterable ==
    <<"a", "r", "g", "u", "m", "e", "n", "t", " ", "o", "f", " ", "t", "y",
      "p", "e", " ", "'", "i", "n", "t", "'", " ", "i", "s", " ", "n", "o",
      "t", " ", "i", "t", "e", "r", "a", "b", "l", "e">>

\* "'text'"
KeyText ==
    <<"'", "t", "e", "x", "t", "'">>

(***************************************************************************)
(* Python dict operations on functions.                                    *)
(***************************************************************************)
\* key in d
Has(d, k) == k \in DOMAIN d

\* d[k] = v
Put(d, k, v) == [x \in DOMAIN d \cup {k} |-> IF x = k THEN v ELSE d[x]]

\* the dict with no key
EmptyDict == [x \in {} |-> <<>>]

(***************************************************************************)
(* process_url of api.py: the normalization of one raw record.  Each step  *)
(* yields [item |-> dict] or, when the Python code raises, [exc |-> str(e)].*)
(***************************************************************************)
\* accords flattened with the entries that have no text key skipped
FlattenAccordsSkipping(item) ==
    IF ~Has(item, "accords") THEN [item |-> item]
    ELSE [item |-> Put(item, "accords",
             LET texts == SelectSeq(item["accords"], LAMBDA a : Has(a, "text"))
             IN  [k \in 1..Len(texts) |-> texts[k]["text"]])]

\* accords flattened with an empty list for a record that has none
FlattenAccordsDefaultEmpty(item) ==
    IF ~Has(item, "accords") THEN [item |-> Put(item, "accords", <<>>)]
    ELSE IF \E k \in 1..Len(item["accords"]) : ~Has(item["accords"][k], "text")
         THEN [exc |-> KeyText]
         ELSE [item |-> Put(item, "accords",
                   [k \in 1..Len(item["accords"]) |-> item["accords"][k]["text"]])]

\* lines 208-210: the accords list of {text} objects becomes a list of str;
\* accord["text"] raises KeyError('text') on an entry without that key
FlattenAccords(item) ==
    IF ~Has(item, "accords") THEN [item |-> item]
    ELSE IF \E k \in 1..Len(item["accords"]) : ~Has(item["accords"][k], "text")
         THEN [exc |-> KeyText]
         ELSE [item |-> Put(item, "accords",
                   [k \in 1..Len(item["accords"]) |-> item["accords"][k]["text"]])]

\* lines 216-222: one of the three has_* flags is present and true
HasClassifiedNotes(item) ==
    \/ Has(item, "has_top_notes") /\ item["has_top_notes"]
    \/ Has(item, "has_middle_notes") /\ item["has_middle_notes"]
    \/ Has(item, "has_base_notes") /\ item["has_base_notes"]

\* lines 225-240: a classified category gets the raw list when it is present
\* and non-empty
ClassifiedCategories(item) ==
    {c \in {"top", "middle", "base"} :
        /\ Has(item, c \o "_notes")
        /\ Len(item[c \o "_notes"]) > 0}

\* the unclassified list kept whatever the flags say
KeepsUnclassifiedIgnoringFlags(item) ==
    /\ Has(item, "unclassified_notes")
    /\ Len(item["unclassified_notes"]) > 0

\* lines 243-245: the unclassified list is kept when no flag is set
KeepsUnclassified(item) ==
    /\ Has(item, "unclassified_notes")
    /\ ~HasClassifiedNotes(item)
    /\ Len(item["unclassified_notes"]) > 0

\* lines 213-246: the notes dict
ClassifyNotes(item) ==
    [c \in ClassifiedCategories(item)
          \cup (IF KeepsUnclassified(item) THEN {"unclassified"} ELSE {})
       |-> item[c \o "_notes"]]

\* the keys deleted by lines 228, 234, 240, 246 and 249-254
RawKeys == {"top_notes", "middle_notes", "base_notes", "unclassified_notes",
            "has_top_notes", "has_middle_notes", "has_base_notes"}

\* lines 212-257: the raw note fields and flags leave, notes enters
NormalizeNotes(item) ==
    Put([x \in DOMAIN item \ RawKeys |-> item[x]], "notes", ClassifyNotes(item))

\* line 261: the decoded path split on "/"
PathParts(url) == SplitStr(Unquote(UrlPath(url)), <<"/">>)

\* line 262
MatchesPerfumeShape(url) ==
    /\ Len(PathParts(url)) >= 4
    /\ PathParts(url)[2] = <<"p", "e", "r", "f", "u", "m", "e">>

\* line 264
House(url) == ReplaceStr(PathParts(url)[3], <<"-">>, <<" ">>)

\* line 267: what precedes the first ".html"
PerfumeNameRaw(url) == SplitStr(PathParts(url)[4], <<".", "h", "t", "m", "l">>)[1]

\* every trailing numeric token dropped, not only the last one
RECURSIVE DropTrailingNumeric(_)
DropTrailingNumeric(tokens) ==
    IF tokens # <<>> /\ IsDigit(tokens[Len(tokens)])
    THEN DropTrailingNumeric(SubSeq(tokens, 1, Len(tokens) - 1))
    ELSE tokens

PerfumeNameDropsAllNumeric(url) ==
    JoinStr(<<" ">>, DropTrailingNumeric(SplitStr(PerfumeNameRaw(url), <<"-">>)))

\* line 269
PerfumeName(url) ==
    LET tokens == SplitStr(PerfumeNameRaw(url), <<"-">>)
    IN  JoinStr(<<" ">>,
                IF IsDigit(tokens[Len(tokens)])
                THEN SubSeq(tokens, 1, Len(tokens) - 1)
                ELSE tokens)

\* the title cleaned of the first occurrence of sex only
CleanTitleFirstOnly(item) ==
    IF Has(item, "sex") /\ Len(item["sex"]) > 0 /\ Has(item, "title")
       /\ Find(item["title"], item["sex"]) # 0
    THEN LET i == Find(item["title"], item["sex"])
         IN  Put(item, "title",
                 SubSeq(item["title"], 1, i - 1)
                   \o Tail_(item["title"], i + Len(item["sex"])))
    ELSE item

\* lines 276-277
CleanTitle(item) ==
    IF Has(item, "sex") /\ Len(item["sex"]) > 0 /\ Has(item, "title")
    THEN Put(item, "title", ReplaceStr(item["title"], item["sex"], <<>>))
    ELSE item

\* the title cleaned whatever the shape of the URL
DeriveFromUrlAlwaysCleaning(item, url) ==
    IF MatchesPerfumeShape(url)
    THEN CleanTitle(Put(Put(item, "house", House(url)),
                        "perfume_name", PerfumeName(url)))
    ELSE CleanTitle(item)

\* lines 259-277
DeriveFromUrl(item, url) ==
    IF MatchesPerfumeShape(url)
    THEN CleanTitle(Put(Put(item, "house", House(url)),
                        "perfume_name", PerfumeName(url)))
    ELSE item

\* lines 205-279
Normalize(item, url) ==
    LET a == FlattenAccords(item)
    IN  IF Has(a, "exc") THEN a
        ELSE [item |-> DeriveFromUrl(NormalizeNotes(a.item), url)]

(***************************************************************************)
(* extract_fragrance_data of app.py: its own copy of the normalization,    *)
(* statement by statement on the dict item and the dict notes.             *)
(***************************************************************************)
\* del d[k]
Del(d, k) == [x \in DOMAIN d \ {k} |-> d[x]]

\* app.py lines 277-278
ExtractAccords(item) ==
    IF "accords" \in DOMAIN item
    THEN IF \A k \in DOMAIN item["accords"] : "text" \in DOMAIN item["accords"][k]
         THEN [item |-> Put(item, "accords",
                   [k \in DOMAIN item["accords"] |-> item["accords"][k]["text"]])]
         ELSE [exc |-> KeyText]
    ELSE [item |-> item]

\* app.py lines 284-290
ExtractHasClassified(item) ==
    LET h0 == FALSE
        h1 == IF Has(item, "has_top_notes") /\ item["has_top_notes"] THEN TRUE ELSE h0
        h2 == IF Has(item, "has_middle_notes") /\ item["has_middle_notes"] THEN TRUE ELSE h1
    IN  IF Has(item, "has_base_notes") /\ item["has_base_notes"] THEN TRUE ELSE h2

\* app.py lines 293-296, 299-302, 305-308: one classified category; st is
\* the pair of item and notes
ExtractCategory(st, field, category) ==
    IF Has(st.item, field)
    THEN [item |-> Del(st.item, field),
          notes |-> IF st.item[field] # <<>>
                    THEN Put(st.notes, category, st.item[field])
                    ELSE st.notes]
    ELSE st

\* the unclassified list kept when it is not empty, with a classified
\* category or without
ExtractUnclassifiedAlways(st, classified) ==
    IF Has(st.item, "unclassified_notes")
    THEN [item |-> Del(st.item, "unclassified_notes"),
          notes |-> IF st.item["unclassified_notes"] # <<>>
                    THEN Put(st.notes, "unclassified", st.item["unclassified_notes"])
                    ELSE st.notes]
    ELSE st

\* app.py lines 311-314
ExtractUnclassified(st, classified) ==
    IF Has(st.item, "unclassified_notes")
    THEN [item |-> Del(st.item, "unclassified_notes"),
          notes |-> IF ~classified /\ st.item["unclassified_notes"] # <<>>
                    THEN Put(st.notes, "unclassified", st.item["unclassified_notes"])
                    ELSE st.notes]
    ELSE st

\* app.py lines 317-322
ExtractCleanUp(item) ==
    LET d1 == IF Has(item, "has_top_notes") THEN Del(item, "has_top_notes") ELSE item
        d2 == IF Has(d1, "has_middle_notes") THEN Del(d1, "has_middle_notes") ELSE d1
    IN  IF Has(d2, "has_base_notes") THEN Del(d2, "has_base_notes") ELSE d2

\* app.py lines 281-325
ExtractNotes(item) ==
    LET classified == ExtractHasClassified(item)
        s0 == [item |-> item, notes |-> EmptyDict]
        s1 == ExtractCategory(s0, "top_notes", "top")
        s2 == ExtractCategory(s1, "middle_notes", "middle")
        s3 == ExtractCategory(s2, "base_notes", "base")
        s4 == ExtractUnclassified(s3, classified)
    IN  Put(ExtractCleanUp(s4.item), "notes", s4.notes)

\* app.py lines 328-345
ExtractUrlNames(item, url) ==
    LET path_parts == SplitStr(Unquote(UrlPath(url)), <<"/">>)
    IN  IF Len(path_parts) >= 4 /\ path_parts[2] = <<"p", "e", "r", "f", "u", "m", "e">>
        THEN LET house == ReplaceStr(path_parts[3], <<"-">>, <<" ">>)
                 perfume_name_raw ==
                     SplitStr(path_parts[4], <<".", "h", "t", "m", "l">>)[1]
                 split == SplitStr(perfume_name_raw, <<"-">>)
                 perfume_name ==
                     JoinStr(<<" ">>, IF IsDigit(split[Len(split)])
                                      THEN SubSeq(split, 1, Len(split) - 1)
                                      ELSE split)
                 named == Put(Put(item, "house", house), "perfume_name", perfume_name)
             IN  IF Has(named, "sex") /\ named["sex"] # <<>> /\ Has(named, "title")
                 THEN Put(named, "title", ReplaceStr(named["title"], named["sex"], <<>>))
                 ELSE named
        ELSE item

\* app.py lines 274-345
ExtractNormalize(item, url) ==
    LET a == ExtractAccords(item)
    IN  IF Has(a, "exc") THEN a
        ELSE [item |-> ExtractUrlNames(ExtractNotes(a.item), url)]

(***************************************************************************)
(* run_extraction of app.py: its copy of the normalization, which changes  *)
(* data[0] in place; data is the list of dicts json.loads returned.        *)
(***************************************************************************)
\* data[0][k] = v
SetFirst(data, k, v) == <<Put(data[1], k, v)>> \o Tail(data)

\* del data[0][k]
DelFirst(data, k) == <<[x \in DOMAIN data[1] \ {k} |-> data[1][x]]>> \o Tail(data)

\* app.py lines 46-47
RunExtractionAccords(data) ==
    IF ~Has(data[1], "accords") THEN [data |-> data]
    ELSE LET accords == data[1]["accords"]
             missing == {k \in 1..Len(accords) : ~Has(accords[k], "text")}
         IN  IF missing # {} THEN [exc |-> KeyText]
             ELSE [data |-> SetFirst(data, "accords",
                                     [k \in 1..Len(accords) |-> accords[k]["text"]])]

\* app.py lines 53-59
RunExtractionHasClassified(data) ==
    \E flag \in {"has_top_notes", "has_middle_notes", "has_base_notes"} :
        Has(data[1], flag) /\ data[1][flag] = TRUE

\* app.py lines 63, 69, 75, 81: the list under field is there and not empty
RunExtractionKept(data, field) == Has(data[1], field) /\ Len(data[1][field]) # 0

\* app.py lines 62-83: the notes dict after the four blocks
RunExtractionNotes(data) ==
    LET top == IF RunExtractionKept(data, "top_notes") THEN {"top"} ELSE {}
        middle == IF RunExtractionKept(data, "middle_notes") THEN {"middle"} ELSE {}
        base == IF RunExtractionKept(data, "base_notes") THEN {"base"} ELSE {}
        unclassified ==
            IF ~RunExtractionHasClassified(data)
               /\ RunExtractionKept(data, "unclassified_notes")
            THEN {"unclassified"} ELSE {}
    IN  [c \in top \cup middle \cup base \cup unclassified |-> data[1][c \o "_notes"]]

\* app.py lines 65, 71, 77, 83 and 86-91: the dels
RECURSIVE RunExtractionDels(_, _)
RunExtractionDels(data, fields) ==
    IF fields = <<>> THEN data
    ELSE RunExtractionDels(IF Has(data[1], Head(fields))
                           THEN DelFirst(data, Head(fields))
                           ELSE data,
                           Tail(fields))

\* app.py lines 50-94
RunExtractionNotesStep(data) ==
    SetFirst(RunExtractionDels(data, <<"top_notes", "middle_notes", "base_notes",
                                       "unclassified_notes", "has_top_notes",
                                       "has_middle_notes", "has_base_notes">>),
             "notes", RunExtractionNotes(data))

\* app.py lines 97-114
RunExtractionUrlNames(data, url) ==
    LET path_parts == SplitStr(Unquote(UrlPath(url)), <<"/">>)
    IN  IF ~(Len(path_parts) >= 4 /\ path_parts[2] = <<"p", "e", "r", "f", "u", "m", "e">>)
        THEN data
        ELSE LET raw == SplitStr(path_parts[4], <<".", "h", "t", "m", "l">>)[1]
                 tokens == SplitStr(raw, <<"-">>)
                 name == IF IsDigit(tokens[Len(tokens)])
                         THEN JoinStr(<<" ">>, SubSeq(tokens, 1, Len(tokens) - 1))
                         ELSE JoinStr(<<" ">>, tokens)
                 named == SetFirst(SetFirst(data, "house",
                                            ReplaceStr(path_parts[3], <<"-">>, <<" ">>)),
                                   "perfume_name", name)
             IN  IF Has(named[1], "sex") /\ Len(named[1]["sex"]) # 0
                    /\ Has(named[1], "title")
                 THEN SetFirst(named, "title",
                               ReplaceStr(named[1]["title"], named[1]["sex"], <<>>))
                 ELSE named

\* app.py lines 44-114: data after the block, or the exception it raises
RunExtractionNormalize(data, url) ==
    LET a == RunExtractionAccords(data)
    IN  IF Has(a, "exc") THEN a
        ELSE [data |-> RunExtractionUrlNames(RunExtractionNotesStep(a.data), url)]

(***************************************************************************)
(* process_url of api.py: fetch result, JSON parse, emptiness check.       *)
(*   crawl result    [success, error_message] | [success, extracted_content]*)
(*                   | [raises] when arun itself raises                    *)
(*   extracted_content  [kind |-> "None"] | [kind |-> "text"] (not JSON)   *)
(*                   | [kind |-> "json", data |-> parsed value]            *)
(*   parsed value    [json |-> "null"] | [json |-> "array", elems]         *)
(*                   | [json |-> "object", members] | [json |-> "number", num]*)
(* A step yields [ret |-> dict] or [exc |-> str(e)], and ran, the stages   *)
(* it went through.                                                        *)
(***************************************************************************)
\* line 202: not data (None, an empty list, an empty dict, the number 0)
Falsy(data) ==
    \/ data.json = "null"
    \/ data.json = "array" /\ data.elems = <<>>
    \/ data.json = "object" /\ DOMAIN data.members = {}
    \/ data.json = "number" /\ data.num = 0

\* lines 189-192
FetchFailed(url, result) ==
    [ret |-> [error |-> FailedToCrawl \o url \o ColonSpace \o result.error_message],
     ran |-> {"fetch"}]

\* lines 197-200
ParseFailed(url) ==
    [ret |-> [error |-> FailedToParse \o url \o ColonSpace \o ExpectingValue],
     ran |-> {"fetch", "parse"}]

\* no emptiness check: the empty extraction goes on as a record without keys
EmptyExtractedPassedOn(url) ==
    [ret |-> EmptyDict, ran |-> {"fetch", "parse", "normalize"}]

\* lines 202-203
EmptyExtracted(url) ==
    [ret |-> [error |-> NoDataExtracted \o url], ran |-> {"fetch", "parse"}]

\* lines 202-279: from the emptiness check on, for a value that is not falsy
ProcessData(url, data) ==
    IF data.json = "number"
    THEN [exc |-> NoLen, ran |-> {"fetch", "parse"}]
    ELSE IF data.json = "object"
    THEN [exc |-> KeyZero, ran |-> {"fetch", "parse", "normalize"}]
    ELSE IF data.elems[1].json # "object"
    THEN [exc |-> NotIterable, ran |-> {"fetch", "parse", "normalize"}]
    ELSE LET n == Normalize(data.elems[1].members, url)
         IN  IF Has(n, "exc")
             THEN [exc |-> n.exc, ran |-> {"fetch", "parse", "normalize"}]
             ELSE [ret |-> n.item, ran |-> {"fetch", "parse", "normalize"}]

\* lines 176-279, the body of the try block of process_url
ProcessUrlBody(url, result) ==
    IF Has(result, "raises")
    THEN [exc |-> result.raises, ran |-> {"fetch"}]
    ELSE IF ~result.success
    THEN FetchFailed(url, result)
    ELSE IF result.extracted_content.kind = "None"
    THEN [exc |-> NotNoneType, ran |-> {"fetch", "parse"}]
    ELSE IF result.extracted_content.kind = "text"
    THEN ParseFailed(url)
    ELSE IF Falsy(result.extracted_content.data)
    THEN EmptyExtracted(url)
    ELSE ProcessData(url, result.extracted_content.data)

\* the except clause with a message that leaves the URL out
CaughtWithoutUrl(url, exc) == [error |-> ErrorProcessing \o exc]

\* the except clause raising again what the body raised
CaughtAndRaisedAgain(url, exc) == [raised |-> exc]

\* lines 280-281: the except clause turns what the body raised into a dict
Caught(url, exc) == [error |-> ErrorProcessing \o url \o ColonSpace \o exc]

\* process_url without its except clause: the exception leaves the coroutine
ProcessUrlUncaught(url, result) ==
    LET b == ProcessUrlBody(url, result)
    IN  IF Has(b, "exc") THEN [raised |-> b.exc] ELSE b.ret

\* lines 174-281: what the coroutine yields, a returned dict or, were an
\* exception to leave it, [raised |-> str(e)]
ProcessUrl(url, result) ==
    LET b == ProcessUrlBody(url, result)
    IN  IF Has(b, "exc") THEN Caught(url, b.exc) ELSE b.ret

\* an exception left the coroutine
Raised(r) == Has(r, "raised")

\* lines 312, 95: "error" in result
IsError(r) == Has(r, "error")

IsResult(r) == ~IsError(r)

\* lines 161-168: the response model keeps its seven fields, None (written
\* <<>>, a present value v being <<v>>) for a field the dict does not have
FragranceFields == {"title", "sex", "image", "accords", "notes", "house", "perfume_name"}

FragranceData(item) ==
    [f \in FragranceFields |-> IF Has(item, f) THEN <<item[f]>> ELSE <<>>]

\* lines 170-172, 317
ScrapeResponse(res, errs) ==
    [results |-> [k \in 1..Len(res) |-> FragranceData(res[k])], errors |-> errs]

(***************************************************************************)
(* scrape_fragrances of api.py: one crawler session, one process_url       *)
(* coroutine per URL, asyncio.gather, partition, response.                 *)
(***************************************************************************)
\* "crawler is closed"
CrawlerClosed ==
    <<"c", "r", "a", "w", "l", "e", "r", " ", "i", "s", " ", "c", "l", "o",
      "s", "e", "d">>

Units == 1..Len(urls)

\* the outcome slot of a coroutine that has not returned
Unsettled == [unsettled |-> TRUE]

\* line 187: what arun yields for unit i; the pages are served by the open
\* session, a closed crawler serves nothing
ArunResult(i) ==
    IF session = "open" THEN page[i]
    ELSE [success |-> FALSE, error_message |-> CrawlerClosed]

\* a join that returns when the first awaitable has returned
AnySettled == \E i \in Units : unit[i] = "done"

\* a join that returns once every coroutine has been started
AllStarted == \A i \in Units : unit[i] # "pending"

\* line 309: every awaitable has returned
AllSettled == \A i \in Units : unit[i] = "done"

\* line 309: an exception left one of the awaitables
SomeRaised == \E i \in Units : unit[i] = "done" /\ Raised(outcome[i])

\* a join that lists the outcomes in the order in which the units returned
GatherAsCompleted(done, order) == [k \in 1..Len(order) |-> done[order[k]]]

\* line 309: gather lists the outcomes in the order of its awaitables,
\* whatever the order in which they returned
Gather(done, order) == done

\* the partition loop without its else: every outcome is appended to results
PartitionNoElse(done) ==
    [results |-> done, errors |-> SelectSeq(done, IsError)]

\* lines 311-315: the partition loop over processed_results
Partition(done) ==
    [results |-> SelectSeq(done, IsResult), errors |-> SelectSeq(done, IsError)]

\* line 306, __aenter__: the crawler session of the batch is started;
\* lines 308-309: the coroutines are created and handed to gather
Enter ==
    /\ service = "api"
    /\ svc = "start"
    /\ session' = "open"
    /\ opens' = opens + 1
    /\ svc' = "gathering"
    /\ UNCHANGED <<completed, cliVars, service, urls, page, closes, unit, fetchOn, outcome, ran,
                   processed, results, errors, response>>

\* lines 176-187: unit i runs up to its await of crawler.arun
StartUnit(i) ==
    /\ service = "api"
    /\ svc # "start"
    /\ unit[i] = "pending"
    /\ unit' = [unit EXCEPT ![i] = "awaiting"]
    /\ fetchOn' = [fetchOn EXCEPT ![i] = session]
    /\ UNCHANGED <<completed, cliVars, service, urls, page, svc, session, opens, closes, outcome,
                   ran, processed, results, errors, response>>

\* lines 187-281: arun returns to unit i, which runs to its return without
\* another suspension
ArunReturn(i) ==
    /\ service = "api"
    /\ unit[i] = "awaiting"
    /\ outcome' = [outcome EXCEPT ![i] = ProcessUrl(urls[i], ArunResult(i))]
    /\ ran' = [ran EXCEPT ![i] = ProcessUrlBody(urls[i], ArunResult(i)).ran]
    /\ unit' = [unit EXCEPT ![i] = "done"]
    /\ completed' = Append(completed, i)
    /\ UNCHANGED <<cliVars, service, urls, page, svc, session, opens, closes, fetchOn,
                   processed, results, errors, response>>

\* lines 309-315: gather returns the outcomes in input order once all have
\* returned, and the loop partitions them; an exception that left an
\* awaitable is raised by gather at once and leaves the handler
GatherReturn ==
    /\ service = "api"
    /\ svc = "gathering"
    /\ AllSettled \/ SomeRaised
    /\ IF SomeRaised
       THEN /\ svc' = "raising"
            /\ UNCHANGED <<processed, results, errors>>
       ELSE /\ processed' = Gather(outcome, completed)
            /\ results' = Partition(Gather(outcome, completed)).results
            /\ errors' = Partition(Gather(outcome, completed)).errors
            /\ svc' = "partitioned"
    /\ UNCHANGED <<completed, cliVars, service, urls, page, session, opens, closes, unit, fetchOn,
                   outcome, ran, response>>

\* line 306, __aexit__: leaving the async with block, by its end or by an
\* exception, closes the session
ExitSession ==
    /\ service = "api"
    /\ svc \in {"partitioned", "raising"}
    /\ session' = "closed"
    /\ closes' = closes + 1
    /\ svc' = IF svc = "partitioned" THEN "exited" ELSE "failed"
    /\ UNCHANGED <<completed, cliVars, service, urls, page, opens, unit, fetchOn, outcome, ran,
                   processed, results, errors, response>>

\* line 317
Return ==
    /\ service = "api"
    /\ svc = "exited"
    /\ response' = ScrapeResponse(results, errors)
    /\ svc' = "returned"
    /\ UNCHANGED <<completed, cliVars, service, urls, page, session, opens, closes, unit, fetchOn,
                   outcome, ran, processed, results, errors>>

NextApi ==
    \/ Enter
    \/ \E i \in Units : StartUnit(i)
    \/ \E i \in Units : ArunReturn(i)
    \/ GatherReturn
    \/ ExitSession
    \/ Return

(***************************************************************************)
(* extract_fragrance_data and main of app.py: one URL, the record printed  *)
(* and, when an output path is given, written to that file.                *)
(*   printed line    [text] | [text, json] for a line ending in the JSON   *)
(*                   text of a value                                       *)
(*   file            [exists] | [exists, written] | [exists, written, json]*)
(***************************************************************************)
\* "Error: No data extracted"
ErrorNoData ==
    <<"E", "r", "r", "o", "r", ":", " ", "N", "o", " ", "d", "a", "t", "a",
      " ", "e", "x", "t", "r", "a", "c", "t", "e", "d">>

\* "Error: Crawl failed - "
ErrorCrawlFailed ==
    <<"E", "r", "r", "o", "r", ":", " ", "C", "r", "a", "w", "l", " ", "f",
      "a", "i", "l", "e", "d", " ", "-", " ">>

\* "\n=== Extraction Results ==="
ResultsHeader ==
    <<"\n", "=", "=", "=", " ", "E", "x", "t", "r", "a", "c", "t", "i", "o", "n",
      " ", "R", "e", "s", "u", "l", "t", "s", " ", "=", "=", "=">>

\* "Extracted Content: "
ExtractedContent ==
    <<"E", "x", "t", "r", "a", "c", "t", "e", "d", " ", "C", "o", "n", "t",
      "e", "n", "t", ":", " ">>

\* no file at the output path
NoFile == [exists |-> FALSE]

\* a file nothing has been written to
EmptyFile == [exists |-> TRUE, written |-> FALSE]

\* app.py lines 356-357: the file json.dump has written item to
FileOf(item) == [exists |-> TRUE, written |-> TRUE, json |-> item]

\* app.py line 355: if output_file
Truthy(out) == out # <<>> /\ out[1] # <<>>

\* app.py lines 358-359
NoDataExtractedPrinted ==
    [result_data |-> <<>>, printed |-> <<[text |-> ErrorNoData]>>, written |-> <<>>]

\* app.py lines 360-361
CrawlFailedPrinted(result) ==
    [result_data |-> <<>>,
     printed |-> <<[text |-> ErrorCrawlFailed \o result.error_message]>>,
     written |-> <<>>]

\* app.py lines 274-357: n is what the normalization of lines 274-345 left:
\* the exception it raised, or the item, which is assigned to result_data,
\* printed and, with an output path, written
ExtractedRecord(n, out) ==
    IF Has(n, "exc") THEN [exc |-> n.exc]
    ELSE [result_data |-> <<n.item>>,
          printed |-> <<[text |-> ResultsHeader],
                        [text |-> ExtractedContent, json |-> n.item]>>,
          written |-> IF Truthy(out) THEN <<n.item>> ELSE <<>>]

\* the file written whenever an output path is given, with None when
\* there is no record
ExtractedUnlessEmptyWritingAlways(data, url, out) ==
    IF Falsy(data)
    THEN [result_data |-> <<>>, printed |-> <<[text |-> ErrorNoData]>>,
          written |-> IF Truthy(out) THEN <<[json |-> "null"]>> ELSE <<>>]
    ELSE IF data.json = "number" THEN [exc |-> NoLen]
    ELSE IF data.json = "object" THEN [exc |-> KeyZero]
    ELSE IF data.elems[1].json # "object" THEN [exc |-> NotIterable]
    ELSE ExtractedRecord(ExtractNormalize(data.elems[1].members, url), out)

\* app.py lines 272-359: data is what json.loads returned
ExtractedUnlessEmpty(data, url, out) ==
    IF Falsy(data) THEN NoDataExtractedPrinted
    ELSE IF data.json = "number" THEN [exc |-> NoLen]
    ELSE IF data.json = "object" THEN [exc |-> KeyZero]
    ELSE IF data.elems[1].json # "object" THEN [exc |-> NotIterable]
    ELSE ExtractedRecord(ExtractNormalize(data.elems[1].members, url), out)

\* app.py lines 266-361: from the return of arun to the end of the async
\* with block: [exc] when an exception leaves the function, or what it
\* assigned to result_data, printed and wrote
ExtractFragranceData(url, result, out) ==
    IF Has(result, "raises") THEN [exc |-> result.raises]
    ELSE IF ~result.success THEN CrawlFailedPrinted(result)
    ELSE IF result.extracted_content.kind = "None" THEN [exc |-> NotNoneType]
    ELSE IF result.extracted_content.kind = "text" THEN [exc |-> ExpectingValue]
    ELSE ExtractedUnlessEmpty(result.extracted_content.data, url, out)

\* app.py lines 254-255: result_data is None and the crawler is entered;
\* line 266: arun is awaited
CliEnter ==
    /\ service = "cli"
    /\ svc = "start"
    /\ session' = "open"
    /\ opens' = opens + 1
    /\ fetchOn' = [fetchOn EXCEPT ![1] = "open"]
    /\ unit' = [unit EXCEPT ![1] = "awaiting"]
    /\ svc' = "awaiting"
    /\ UNCHANGED <<completed, cliVars, service, urls, page, closes, outcome, ran, processed,
                   results, errors, response>>

\* app.py lines 266-361: arun returns and the function runs to the end of
\* the async with block, or an exception leaves the block
CliArunReturn ==
    /\ service = "cli"
    /\ svc = "awaiting"
    /\ LET e == ExtractFragranceData(urls[1], ArunResult(1), output_file)
       IN  IF Has(e, "exc")
           THEN /\ svc' = "raising"
                /\ UNCHANGED <<stdout, outfile, result_data>>
           ELSE /\ svc' = "leaving"
                /\ stdout' = stdout \o e.printed
                /\ result_data' = e.result_data
                /\ outfile' = IF e.written # <<>> THEN FileOf(e.written[1]) ELSE outfile
    /\ unit' = [unit EXCEPT ![1] = "done"]
    /\ UNCHANGED <<completed, output_file, service, urls, page, session, opens, closes, fetchOn,
                   outcome, ran, processed, results, errors, response>>

\* app.py line 255, __aexit__, and line 363: the crawler is closed and the
\* function returns result_data, or the exception goes on to main and ends
\* the program
CliExit ==
    /\ service = "cli"
    /\ svc \in {"leaving", "raising"}
    /\ session' = "closed"
    /\ closes' = closes + 1
    /\ svc' = IF svc = "leaving" THEN "returned" ELSE "failed"
    /\ UNCHANGED <<completed, cliVars, service, urls, page, opens, unit, fetchOn, outcome, ran,
                   processed, results, errors, response>>

NextCli ==
    \/ CliEnter
    \/ CliArunReturn
    \/ CliExit

(***************************************************************************)
(* scrape_fragrances of simple_api.py: the URLs one after the other, each  *)
(* by a scraper subprocess that writes its record to a temporary file.     *)
(*   subprocess run  [returncode, stderr] when the exit status is not 0    *)
(*                   | [returncode, file] with file [written, members],    *)
(*                     members being the dict json.load reads              *)
(*                   | [oserror] when subprocess.run itself raises         *)
(* page[i] is such a run, or the page served to the scraper's crawler.     *)
(***************************************************************************)
\* "Failed to scrape "
FailedToScrape ==
    <<"F", "a", "i", "l", "e", "d", " ", "t", "o", " ", "s", "c", "r", "a",
      "p", "e", " ">>

\* run_scraper with a file nothing was written to read as an empty dict
RunScraperEmptyAsRecord(url, run) ==
    IF Has(run, "oserror")
    THEN [error |-> ErrorProcessing \o url \o ColonSpace \o run.oserror]
    ELSE IF run.returncode # 0
    THEN [error |-> FailedToScrape \o url \o ColonSpace \o run.stderr]
    ELSE IF ~run.file.written
    THEN EmptyDict
    ELSE run.file.members

\* simple_api.py lines 48-81
RunScraper(url, run) ==
    IF Has(run, "oserror")
    THEN [error |-> ErrorProcessing \o url \o ColonSpace \o run.oserror]
    ELSE IF run.returncode # 0
    THEN [error |-> FailedToScrape \o url \o ColonSpace \o run.stderr]
    ELSE IF ~run.file.written
    THEN [error |-> ErrorProcessing \o url \o ColonSpace \o ExpectingValue]
    ELSE run.file.members

\* "/tmp/tmp0.json"
TempPath ==
    <<"/", "t", "m", "p", "/", "t", "m", "p", "0", ".", "j", "s", "o", "n">>

\* "Traceback"
Traceback ==
    <<"T", "r", "a", "c", "e", "b", "a", "c", "k">>

\* app.py lines 374-377: how the program ends when extract_fragrance_data
\* ended as e: status 1 and a traceback when an exception left it, else
\* status 0 and the temporary file as it was left
ScraperExit(e) ==
    IF Has(e, "exc") THEN [returncode |-> 1, stderr |-> Traceback]
    ELSE [returncode |-> 0,
          file |-> IF e.written = <<>> THEN [written |-> FALSE]
                   ELSE [written |-> TRUE, members |-> e.written[1]]]

\* simple_api.py lines 52-69 and app.py lines 365-377: the run of app.py
\* with the temporary file as its output path, on a URL whose page the
\* scraper's own crawler is served; an exception that leaves main ends the
\* program with status 1 and a traceback on stderr
ScraperRun(url, result) == ScraperExit(ExtractFragranceData(url, result, <<TempPath>>))

\* simple_api.py lines 64-69: the subprocess of a URL: the run given as
\* such, or the run of app.py on the page given
SubprocessOf(url, pg) ==
    IF Has(pg, "returncode") \/ Has(pg, "oserror") THEN pg ELSE ScraperRun(url, pg)

\* simple_api.py line 92: the URL the for loop is at, 0 after the last one
LoopAt ==
    IF \E i \in Units : unit[i] = "pending"
    THEN CHOOSE i \in Units : unit[i] = "pending" /\ \A j \in 1..(i - 1) : unit[j] = "done"
    ELSE 0

\* simple_api.py lines 92-98: one iteration of the loop
ScrapeNext ==
    /\ service = "simple"
    /\ svc = "start"
    /\ LoopAt # 0
    /\ LET i == LoopAt
       IN  /\ outcome' = [outcome EXCEPT
                             ![i] = RunScraper(urls[i], SubprocessOf(urls[i], page[i]))]
           /\ unit' = [unit EXCEPT ![i] = "done"]
           /\ IF IsError(outcome'[i])
              THEN errors' = Append(errors, outcome'[i]) /\ UNCHANGED results
              ELSE results' = Append(results, outcome'[i]) /\ UNCHANGED errors
           /\ completed' = Append(completed, i)
    /\ UNCHANGED <<cliVars, service, urls, page, svc, session, opens, closes, fetchOn,
                   ran, processed, response>>

\* simple_api.py line 100
ReturnSimple ==
    /\ service = "simple"
    /\ svc = "start"
    /\ LoopAt = 0
    /\ response' = ScrapeResponse(results, errors)
    /\ svc' = "returned"
    /\ UNCHANGED <<completed, cliVars, service, urls, page, session, opens, closes, unit, fetchOn,
                   outcome, ran, processed, results, errors>>

NextSimple ==
    \/ ScrapeNext
    \/ ReturnSimple

(***************************************************************************)
(* The three copies of the normalization run on the same URL and on the   *)
(* same page, page[1]: unit 1 is process_url of api.py, unit 2            *)
(* run_extraction and unit 3 extract_fragrance_data of app.py.             *)
(***************************************************************************)
\* app.py lines 36-126: what run_extraction prints: the data, or an error
\* line for a failed crawl or a caught exception
RunExtraction(url, result) ==
    IF Has(result, "raises") THEN [caught |-> result.raises]
    ELSE IF ~result.success THEN [failed |-> TRUE]
    ELSE IF result.extracted_content.kind = "None" THEN [caught |-> NotNoneType]
    ELSE IF result.extracted_content.kind = "text" THEN [caught |-> ExpectingValue]
    ELSE LET data == result.extracted_content.data
         IN  IF Falsy(data) THEN [printed |-> data]
             ELSE IF data.json = "number" THEN [caught |-> NoLen]
             ELSE IF data.json = "object" THEN [caught |-> KeyZero]
             ELSE IF data.elems[1].json # "object" THEN [caught |-> NotIterable]
             ELSE LET n == RunExtractionNormalize(
                               [k \in 1..Len(data.elems) |-> data.elems[k].members], url)
                  IN  IF Has(n, "exc") THEN [caught |-> n.exc]
                      ELSE [printed |-> n.data]

\* what copy i makes of the page: the record it returns or prints
CopyOutcome(i, url, result) ==
    IF i = 1 THEN [copy |-> ProcessUrl(url, result)]
    ELSE IF i = 2 THEN RunExtraction(url, result)
    ELSE ExtractFragranceData(url, result, <<>>)

\* the copies are run one after the other
RunCopy(i) ==
    /\ service = "copies"
    /\ unit[i] = "pending"
    /\ \A j \in 1..(i - 1) : unit[j] = "done"
    /\ outcome' = [outcome EXCEPT ![i] = CopyOutcome(i, urls[i], page[1])]
    /\ unit' = [unit EXCEPT ![i] = "done"]
    /\ completed' = Append(completed, i)
    /\ UNCHANGED <<cliVars, service, urls, page, svc, session, opens, closes, fetchOn,
                   ran, processed, results, errors, response>>

NextCopies == \E i \in Units : RunCopy(i)

\* lines 284, 302-303: the handler is entered with the request's URLs
InitWith(sv, us, ps, out, file) ==
    /\ service = sv
    /\ output_file = out
    /\ stdout = <<>>
    /\ outfile = file
    /\ result_data = <<>>
    /\ completed = <<>>
    /\ urls = us
    /\ page = ps
    /\ svc = "start"
    /\ session = "none"
    /\ opens = 0
    /\ closes = 0
    /\ unit = [i \in 1..Len(us) |-> "pending"]
    /\ fetchOn = [i \in 1..Len(us) |-> "none"]
    /\ outcome = [i \in 1..Len(us) |-> Unsettled]
    /\ ran = [i \in 1..Len(us) |-> {}]
    /\ processed = <<>>
    /\ results = <<>>
    /\ errors = <<>>
    /\ response = [results |-> <<>>, errors |-> <<>>]

\* a batch of one of the two services: the command line state stays unused
InitBatch(sv, us, ps) == InitWith(sv, us, ps, <<>>, NoFile)

(***************************************************************************)
(* Requests and pages the handler is run on.                               *)
(***************************************************************************)
\* "https://f.c"
Origin ==
    <<"h", "t", "t", "p", "s", ":", "/", "/", "f", ".", "c">>

\* "https://f.c/perfume/Davidoff/Zino-Davidoff-590.html"
UrlZino ==
    <<"h", "t", "t", "p", "s", ":", "/", "/", "f", ".", "c", "/", "p", "e",
      "r", "f", "u", "m", "e", "/", "D", "a", "v", "i", "d", "o", "f", "f",
      "/", "Z", "i", "n", "o", "-", "D", "a", "v", "i", "d", "o", "f", "f",
      "-", "5", "9", "0", ".", "h", "t", "m", "l">>

\* "https://f.c/perfume/Louis-Vuitton/Afternoon-Swim-53947.html"
UrlSwim ==
    <<"h", "t", "t", "p", "s", ":", "/", "/", "f", ".", "c", "/", "p", "e",
      "r", "f", "u", "m", "e", "/", "L", "o", "u", "i", "s", "-", "V", "u",
      "i", "t", "t", "o", "n", "/", "A", "f", "t", "e", "r", "n", "o", "o",
      "n", "-", "S", "w", "i", "m", "-", "5", "3", "9", "4", "7", ".", "h",
      "t", "m", "l">>

\* "https://f.c/designers/Dior.html"
UrlDesigner ==
    <<"h", "t", "t", "p", "s", ":", "/", "/", "f", ".", "c", "/", "d", "e",
      "s", "i", "g", "n", "e", "r", "s", "/", "D", "i", "o", "r", ".", "h",
      "t", "m", "l">>

\* "Zino for men"
TitleZino ==
    <<"Z", "i", "n", "o", " ", "f", "o", "r", " ", "m", "e", "n">>

\* "for men"
SexMen ==
    <<"f", "o", "r", " ", "m", "e", "n">>

\* a note entry of the nested_list fields (api.py lines 62-133)
Note(n) == [name |-> n, image |-> n \o ".jpg"]

TopEntries == <<Note("Bergamot"), Note("Lemon"), Note("Neroli")>>
MiddleEntries == <<Note("Rose"), Note("Iris"), Note("Jasmine")>>
BaseEntries == <<Note("Cedar"), Note("Amber"), Note("Vanilla")>>
UnclassifiedEntries == <<Note("Musk"), Note("Oud"), Note("Vetiver")>>
AccordEntries == <<[text |-> "Woody"], [text |-> "Spicy"], [text |-> "Fresh"]>>

\* the scalar fields of the schema (api.py lines 23-38)
ItemScalars == [title |-> TitleZino, sex |-> SexMen, image |-> "zino.jpg"]

\* a raw record as the extractor yields it for a page with a notes pyramid
ItemZino ==
    [title |-> TitleZino, sex |-> SexMen, image |-> "zino.jpg",
     accords |-> SubSeq(AccordEntries, 1, 2),
     has_top_notes |-> TRUE, has_middle_notes |-> FALSE, has_base_notes |-> FALSE,
     top_notes |-> SubSeq(TopEntries, 1, 1), middle_notes |-> <<>>,
     base_notes |-> <<>>, unclassified_notes |-> SubSeq(UnclassifiedEntries, 1, 1)]

\* the same record with an accords entry that has no text key
ItemBadAccords ==
    Put(ItemZino, "accords", <<[text |-> "Woody"], [label |-> "Spicy"]>>)

\* the crawl result whose extracted content is the JSON value data
PageOfData(data) ==
    [success |-> TRUE, extracted_content |-> [kind |-> "json", data |-> data]]

\* the crawl result whose extracted content is the one-record list [item]
PageOf(item) ==
    PageOfData([json |-> "array", elems |-> <<[json |-> "object", members |-> item]>>])

\* arun reports "net::ERR_TIMED_OUT"
PageFetchFailure ==
    [success |-> FALSE,
     error_message |-> <<"n", "e", "t", ":", ":", "E", "R", "R", "_", "T", "I", "M", "E", "D", "_", "O", "U", "T">>]
\* arun raises "Browser has been closed"
PageRaises ==
    [raises |-> <<"B", "r", "o", "w", "s", "e", "r", " ", "h", "a", "s", " ", "b", "e", "e", "n", " ", "c", "l", "o", "s", "e", "d">>]
PageNone == [success |-> TRUE, extracted_content |-> [kind |-> "None"]]
PageNotJson == [success |-> TRUE, extracted_content |-> [kind |-> "text"]]
PageNull == PageOfData([json |-> "null"])
PageEmptyArray == PageOfData([json |-> "array", elems |-> <<>>])
PageEmptyObject == PageOfData([json |-> "object", members |-> EmptyDict])
PageObject == PageOfData([json |-> "object", members |-> ItemZino])
PageNumber == PageOfData([json |-> "number", num |-> 7])
PageArrayOfNumber ==
    PageOfData([json |-> "array", elems |-> <<[json |-> "number", num |-> 7]>>])

\* the (URL, page) pairs a unit of the batch is drawn from
UnitInputs ==
    {<<UrlZino, pg>> : pg \in {PageFetchFailure, PageRaises, PageNone, PageNotJson,
                               PageNull, PageEmptyArray, PageEmptyObject, PageObject,
                               PageNumber, PageArrayOfNumber,
                               PageOf(ItemZino), PageOf(ItemBadAccords)}}
    \cup {<<UrlDesigner, pg>> : pg \in {PageFetchFailure, PageOf(ItemZino)}}

\* the batches of at most MaxUrls units
Batches == UNION {[1..n -> UnitInputs] : n \in 0..MaxUrls}

\* the scraper fails with an exit status of 1
RunFailed == [returncode |-> 1, stderr |-> Traceback]

\* the scraper exits with status 0 without writing its output file
RunWroteNothing == [returncode |-> 0, file |-> [written |-> FALSE]]

\* the scraper exits with status 0 after writing a record
RunWrote == [returncode |-> 0, file |-> [written |-> TRUE, members |-> ItemScalars]]

\* the scraper could not be started
RunNotStarted == [oserror |-> <<"N", "o", " ", "s", "u", "c", "h", " ", "f", "i", "l", "e">>]

\* the (URL, subprocess run) pairs a URL of the subprocess-based service is
\* drawn from
ScraperInputs ==
    {<<UrlZino, run>> : run \in {RunFailed, RunWroteNothing, RunWrote, RunNotStarted}}
    \cup {<<UrlSwim, RunWrote>>, <<UrlSwim, RunFailed>>}
    \cup {<<UrlZino, pg>> : pg \in {PageFetchFailure, PageRaises, PageNone, PageNull,
                                    PageEmptyArray, PageOf(ItemZino),
                                    PageOf(ItemBadAccords)}}

ScraperBatches == UNION {[1..n -> ScraperInputs] : n \in 0..MaxUrls}

Init ==
    \/ \E b \in Batches :
          InitBatch("api", [i \in 1..Len(b) |-> b[i][1]], [i \in 1..Len(b) |-> b[i][2]])
    \/ \E b \in ScraperBatches :
          InitBatch("simple", [i \in 1..Len(b) |-> b[i][1]], [i \in 1..Len(b) |-> b[i][2]])

Next == NextApi \/ NextSimple

Spec == Init /\ [][Next]_vars

(***************************************************************************)
(* Claims about the batch endpoint, checked under Spec.  C1 is about both   *)
(* services, C2 to C6 about the service of api.py.                         *)
(***************************************************************************)
\* gather has returned and the partition loop has run
Gathered == service = "api" /\ svc \in {"partitioned", "exited", "returned"}

\* the dict process_url yields for unit i when its URL is scraped alone
SoloOutcome(i) == ProcessUrl(urls[i], page[i])

\* the number of entries of seq equal to x
Count(seq, x) == Cardinality({k \in 1..Len(seq) : seq[k] = x})

\* C1: once the batch returns, in either service, len(results) +
\* len(errors) equals the number of input URLs, and every unit's outcome is
\* in exactly one of the two sequences, as often as units produced it.
C1_Completeness ==
    /\ Gathered =>
          /\ Len(results) + Len(errors) = Len(urls)
          /\ \A i \in Units :
                /\ unit[i] = "done"
                /\ IF IsError(outcome[i])
                   THEN /\ Count(errors, outcome[i]) = Count(outcome, outcome[i])
                        /\ Count(results, outcome[i]) = 0
                   ELSE /\ Count(results, outcome[i]) = Count(outcome, outcome[i])
                        /\ Count(errors, outcome[i]) = 0
    /\ svc = "returned" =>
          Len(response.results) + Len(response.errors) = Len(urls)

\* a batch of two URLs has returned with one result and one error
C1_Witness ==
    /\ service = "api"
    /\ svc = "returned"
    /\ Len(urls) = 2
    /\ Len(response.results) = 1
    /\ Len(response.errors) = 1

\* C2: a failing unit never changes another unit's outcome: every settled
\* unit holds what its URL yields when scraped alone, gather returns only
\* after every unit has settled, and it returns those outcomes.
C2_Isolation ==
    service = "api" =>
        /\ \A i \in Units : unit[i] = "done" => outcome[i] = SoloOutcome(i)
        /\ Gathered =>
              /\ \A i \in Units : unit[i] = "done"
              /\ Len(processed) = Len(urls)
              /\ \A i \in Units : processed[i] = SoloOutcome(i)
        /\ svc \notin {"raising", "failed"}

\* a batch has returned in which the first unit's fetch failed and the
\* second unit produced a record
C2_Witness ==
    /\ service = "api"
    /\ svc = "returned"
    /\ Len(urls) = 2
    /\ page[1] = PageFetchFailure
    /\ IsError(processed[1])
    /\ IsResult(processed[2])
    /\ response.results = <<FragranceData(SoloOutcome(2))>>

\* the message of an error entry begins with one of process_url's four
\* prefixes followed by the URL
NamesUrl(entry, url) ==
    \E prefix \in {FailedToCrawl, FailedToParse, NoDataExtracted, ErrorProcessing} :
        StartsAt(entry.error, 1, prefix \o url)

C4_SessionScope ==
    service = "api" =>
        /\ opens <= 1
        /\ closes <= 1
        /\ (session = "none") = (opens = 0)
        /\ (session = "open") = (opens = 1 /\ closes = 0)
        /\ \A i \in Units : unit[i] # "pending" => fetchOn[i] = "open"
        /\ \A i \in Units : unit[i] = "awaiting" => session = "open"
        /\ session = "closed" => \A i \in Units : unit[i] = "done"
        /\ svc \in {"exited", "returned"} => opens = 1 /\ closes = 1
        /\ svc \in {"start", "gathering", "partitioned"} => closes = 0

\* a batch in which a unit failed has returned, its session entered once
\* and closed once
C4_Witness ==
    /\ svc = "returned"
    /\ Len(urls) = 2
    /\ Len(errors) >= 1
    /\ \A i \in Units : fetchOn[i] = "open"
    /\ opens = 1
    /\ closes = 1
    /\ session = "closed"

\* the fetch succeeded and the extracted content parses to no record: JSON
\* null, an empty list or an empty object
IsEmptyExtraction(pg) ==
    /\ Has(pg, "success")
    /\ pg.success
    /\ pg.extracted_content.kind = "json"
    /\ \/ pg.extracted_content.data.json = "null"
       \/ /\ pg.extracted_content.data.json = "array"
          /\ Len(pg.extracted_content.data.elems) = 0
       \/ /\ pg.extracted_content.data.json = "object"
          /\ DOMAIN pg.extracted_content.data.members = {}

\* the fetch succeeded and extracted_content is None
IsNoneContent(pg) ==
    /\ Has(pg, "success")
    /\ pg.success
    /\ pg.extracted_content.kind = "None"

\* "no data extracted"
ClaimedNoDataMessage ==
    <<"n", "o", " ", "d", "a", "t", "a", " ", "e", "x", "t", "r", "a", "c",
      "t", "e", "d">>

\* C5 as stated: an empty extraction yields one error entry whose message
\* is "no data extracted".
C5_MessageNoDataExtracted ==
    Gathered =>
        \A i \in Units :
            IsEmptyExtraction(page[i]) =>
                /\ IsError(processed[i])
                /\ processed[i].error = ClaimedNoDataMessage

\* C5 amended: an empty extraction yields, for that unit, exactly one error
\* entry, with the message "No data extracted from <url>", and no result
\* entry, and no normalization step runs; content that is None yields an
\* "Error processing <url>: ..." entry, again without normalization.
C5_EmptyExtraction ==
    service = "api" =>
        /\ \A i \in Units :
              unit[i] = "done" /\ (IsEmptyExtraction(page[i]) \/ IsNoneContent(page[i]))
                  => "normalize" \notin ran[i]
        /\ Gathered =>
              \A i \in Units :
                  /\ IsEmptyExtraction(page[i]) =>
                        /\ processed[i] = [error |-> NoDataExtracted \o urls[i]]
                        /\ Count(errors, processed[i]) = Count(processed, processed[i])
                        /\ Count(results, processed[i]) = 0
                  /\ IsNoneContent(page[i]) =>
                        /\ IsError(processed[i])
                        /\ StartsAt(processed[i].error, 1, ErrorProcessing \o urls[i])
                        /\ Count(results, processed[i]) = 0

\* a batch has returned in which one unit's extraction was empty and the
\* other unit produced a record
C5_Witness ==
    /\ svc = "returned"
    /\ Len(urls) = 2
    /\ page[1] = PageEmptyArray
    /\ errors = <<[error |-> NoDataExtracted \o urls[1]]>>
    /\ Len(results) = 1

\* the fetch succeeded and the content holds data that is not a list of
\* well-formed records: a number, a dict, a list of a number, or a record
\* with an accords entry that has no text key
IsMalformed(pg) ==
    /\ Has(pg, "success")
    /\ pg.success
    /\ pg.extracted_content.kind = "json"
    /\ ~IsEmptyExtraction(pg)
    /\ LET data == pg.extracted_content.data
       IN  \/ data.json \in {"number", "object"}
           \/ /\ data.json = "array"
              /\ \/ data.elems[1].json # "object"
                 \/ /\ "accords" \in DOMAIN data.elems[1].members
                    /\ \E k \in 1..Len(data.elems[1].members["accords"]) :
                          "text" \notin DOMAIN data.elems[1].members["accords"][k]

FlagChoices == {<<>>, <<TRUE>>, <<FALSE>>}

NoteChoices(entries) == {<<>>} \cup {<<SubSeq(entries, 1, n)>> : n \in 0..MaxNotes}

AccordChoices ==
    {<<>>, <<ItemBadAccords["accords"]>>}
        \cup {<<SubSeq(AccordEntries, 1, n)>> : n \in 0..MaxAccords}

\* the dict holding base and, for every key of choice that is chosen present,
\* its value
WithChoices(base, choice) ==
    [k \in DOMAIN base \cup {c \in DOMAIN choice : choice[c] # <<>>}
        |-> IF k \in DOMAIN choice /\ choice[k] # <<>> THEN choice[k][1] ELSE base[k]]

\* the records with every combination of flags and note lists
NoteItems ==
    {WithChoices(Put(ItemScalars, "accords", ItemZino["accords"]),
                 [has_top_notes |-> ft, has_middle_notes |-> fm, has_base_notes |-> fb,
                  top_notes |-> nt, middle_notes |-> nm, base_notes |-> nb,
                  unclassified_notes |-> nu]) :
        ft \in FlagChoices, fm \in FlagChoices, fb \in FlagChoices,
        nt \in NoteChoices(TopEntries), nm \in NoteChoices(MiddleEntries),
        nb \in NoteChoices(BaseEntries), nu \in NoteChoices(UnclassifiedEntries)}

\* the records with every shape of accords
AccordItems ==
    {WithChoices([k \in DOMAIN ItemZino \ {"accords"} |-> ItemZino[k]],
                 [accords |-> a]) : a \in AccordChoices}

InitNorm ==
    \E item \in NoteItems \cup AccordItems :
        InitBatch("api", <<UrlZino>>, <<PageOf(item)>>)

SpecNorm == InitNorm /\ [][NextApi]_vars

(***************************************************************************)
(* Claims about the normalizer's notes and accords, checked under SpecNorm.*)
(***************************************************************************)
\* the raw record of unit i's page
RawItem(i) == page[i].extracted_content.data.elems[1].members

\* the raw record of unit i has accords entries that all have a text key
WellFormedAccords(i) ==
    "accords" \in DOMAIN RawItem(i) =>
        \A k \in 1..Len(RawItem(i)["accords"]) :
            "text" \in DOMAIN RawItem(i)["accords"][k]

\* C7 as stated: the notes of a produced record never hold unclassified
\* together with top, middle or base.
C7_NotesNeverMixed ==
    Gathered =>
        \A k \in 1..Len(results) :
            "unclassified" \in DOMAIN results[k]["notes"] =>
                DOMAIN results[k]["notes"] \cap {"top", "middle", "base"} = {}

\* C8: notes[c] is present iff the raw c_notes is present and non-empty, and
\* is that list; notes[unclassified] is present iff no has_* flag is true
\* and the raw unclassified_notes is present and non-empty, and is that
\* list; the raw note fields and the flags are in no produced record.
C8_NoteClassification ==
    Gathered =>
        \A i \in Units :
            WellFormedAccords(i) =>
                LET raw == RawItem(i)
                    rec == processed[i]
                    flagged ==
                        \E f \in {"has_top_notes", "has_middle_notes", "has_base_notes"} :
                            f \in DOMAIN raw /\ raw[f] = TRUE
                IN  /\ IsResult(rec)
                    /\ DOMAIN rec["notes"] \subseteq {"top", "middle", "base", "unclassified"}
                    /\ \A c \in {"top", "middle", "base"} :
                          /\ (c \in DOMAIN rec["notes"])
                                = (c \o "_notes" \in DOMAIN raw /\ raw[c \o "_notes"] # <<>>)
                          /\ c \in DOMAIN rec["notes"] => rec["notes"][c] = raw[c \o "_notes"]
                    /\ ("unclassified" \in DOMAIN rec["notes"])
                          = /\ ~flagged
                            /\ "unclassified_notes" \in DOMAIN raw
                            /\ raw["unclassified_notes"] # <<>>
                    /\ "unclassified" \in DOMAIN rec["notes"] =>
                          rec["notes"]["unclassified"] = raw["unclassified_notes"]
                    /\ DOMAIN rec \cap {"top_notes", "middle_notes", "base_notes",
                                        "unclassified_notes", "has_top_notes",
                                        "has_middle_notes", "has_base_notes"} = {}
                    /\ svc = "returned" /\ Len(urls) = 1 =>
                          /\ response.results[1]["notes"] = <<rec["notes"]>>
                          /\ DOMAIN response.results[1] = FragranceFields

\* a record with has_top_notes true, two top notes and a non-empty
\* unclassified list has been returned with notes holding the two top notes
\* only
C8_Witness ==
    /\ svc = "returned"
    /\ Len(urls) = 1
    /\ {"has_top_notes", "top_notes", "unclassified_notes"} \subseteq DOMAIN RawItem(1)
    /\ "has_middle_notes" \notin DOMAIN RawItem(1)
    /\ RawItem(1)["has_top_notes"] = TRUE
    /\ RawItem(1)["top_notes"] = SubSeq(TopEntries, 1, 2)
    /\ RawItem(1)["unclassified_notes"] = SubSeq(UnclassifiedEntries, 1, 1)
    /\ response.results[1]["notes"] = <<[top |-> SubSeq(TopEntries, 1, 2)]>>

\* C9 as stated: a raw record without accords yields a record whose accords
\* is the empty sequence.
C9_AbsentAccordsEmpty ==
    svc = "returned" /\ Len(urls) = 1 /\ "accords" \notin DOMAIN RawItem(1) =>
        /\ Len(response.results) = 1
        /\ response.results[1]["accords"] = <<<<>>>>

\* C9 amended: accords given as {text} mappings become the sequence of their
\* texts, in order and of the same length; a raw record without accords
\* yields a record without accords, which the response reports as None.
C9_AccordFlattening ==
    Gathered =>
        \A i \in Units :
            WellFormedAccords(i) =>
                /\ IsResult(processed[i])
                /\ "accords" \in DOMAIN RawItem(i) =>
                      /\ Len(processed[i]["accords"]) = Len(RawItem(i)["accords"])
                      /\ \A k \in 1..Len(RawItem(i)["accords"]) :
                            processed[i]["accords"][k] = RawItem(i)["accords"][k]["text"]
                      /\ svc = "returned" /\ Len(urls) = 1 =>
                            response.results[1]["accords"] = <<processed[i]["accords"]>>
                /\ "accords" \notin DOMAIN RawItem(i) =>
                      /\ "accords" \notin DOMAIN processed[i]
                      /\ svc = "returned" /\ Len(urls) = 1 =>
                            response.results[1]["accords"] = <<>>

\* a record with two accords has been returned as their two texts
C9_Witness ==
    /\ svc = "returned"
    /\ Len(urls) = 1
    /\ "accords" \in DOMAIN RawItem(1)
    /\ RawItem(1)["accords"] = <<[text |-> "Woody"], [text |-> "Spicy"]>>
    /\ response.results = <<FragranceData(processed[1])>>
    /\ response.results[1]["accords"] = <<<<"Woody", "Spicy">>>>

\* the keys of a raw record that normalization removes
RawOnlyKeys ==
    {"top_notes", "middle_notes", "base_notes", "unclassified_notes",
     "has_top_notes", "has_middle_notes", "has_base_notes"}

\* the units that have returned
Resolved == {i \in Units : unit[i] = "done"}

\* C13: results and errors hold only outcomes of units that have returned,
\* at most one entry per such unit; the service of api.py fills them, and
\* assembles and returns the response, only after every unit of the batch
\* has returned; no record in results or in the response carries a has_*
\* flag or a raw *_notes field.
C13_NoPartialOutcome ==
    /\ \A k \in 1..Len(results) :
          /\ \E i \in Resolved : outcome[i] = results[k]
          /\ DOMAIN results[k] \cap RawOnlyKeys = {}
    /\ \A k \in 1..Len(errors) : \E i \in Resolved : outcome[i] = errors[k]
    /\ Len(results) + Len(errors) <= Cardinality(Resolved)
    /\ service = "api" /\ (Gathered \/ results # <<>> \/ errors # <<>>) =>
          /\ Resolved = Units
          /\ processed = outcome
    /\ svc # "returned" => response = [results |-> <<>>, errors |-> <<>>]
    /\ svc = "returned" =>
          /\ Resolved = Units
          /\ response = ScrapeResponse(results, errors)
          /\ \A k \in 1..Len(response.results) :
                DOMAIN response.results[k] = FragranceFields

\* a batch of two units whose pages hold the record with flags and raw
\* note lists has returned two records
C13_Witness ==
    /\ service = "api"
    /\ svc = "returned"
    /\ Len(urls) = 2
    /\ page[1] = PageOf(ItemZino)
    /\ page[2] = PageOf(ItemZino)
    /\ Len(response.results) = 2
    /\ response.errors = <<>>

\* the number of units up to unit i, unit i included, whose outcome is an
\* error dict (err true) or a record (err false)
RankAmong(i, err) == Cardinality({j \in 1..i : IsError(outcome[j]) = err})

\* C15: whatever the order in which the units returned, api.py's batch
\* lists the outcomes in request order: the k-th record of results is the
\* record of the k-th successful unit of the request, and the k-th entry of
\* errors is the error of the k-th failed unit of the request.
C15_InputOrder ==
    service = "api" /\ Gathered =>
        /\ Len(processed) = Len(urls)
        /\ \A i \in Units : processed[i] = outcome[i]
        /\ Len(results) = Cardinality({i \in Units : ~IsError(outcome[i])})
        /\ Len(errors) = Cardinality({i \in Units : IsError(outcome[i])})
        /\ \A i \in Units :
              IF IsError(outcome[i])
              THEN errors[RankAmong(i, TRUE)] = outcome[i]
              ELSE results[RankAmong(i, FALSE)] = outcome[i]

\* a batch of two URLs has returned two different records in request
\* order, the second unit having returned before the first
C15_Witness ==
    /\ service = "api"
    /\ svc = "returned"
    /\ Len(urls) = 2
    /\ completed = <<2, 1>>
    /\ outcome[1] # outcome[2]
    /\ results = <<outcome[1], outcome[2]>>
    /\ response.results = <<FragranceData(outcome[1]), FragranceData(outcome[2])>>

\* the fetch failed
IsFetchFailure(pg) == Has(pg, "success") /\ ~pg.success

\* what is given for unit i is a page served to the scraper's crawler
IsCrawlPage(pg) == ~Has(pg, "returncode") /\ ~Has(pg, "oserror")

\* the scraper of unit i ends without having written a record: it could
\* not be started, or exits with a status other than 0, or exits with
\* status 0 having written nothing, or is served a page whose fetch failed,
\* that holds no data, or that makes it raise
WroteNoRecord(pg) ==
    IF IsCrawlPage(pg)
    THEN \/ Has(pg, "raises")
         \/ IsFetchFailure(pg)
         \/ IsEmptyExtraction(pg)
         \/ IsNoneContent(pg)
         \/ IsMalformed(pg)
    ELSE \/ Has(pg, "oserror")
         \/ pg.returncode # 0
         \/ ~pg.file.written

\* C17: the subprocess-based service takes the URLs one at a time in
\* request order; a URL whose scraper wrote no record has an error entry
\* and no result entry, be it that the scraper exits with a status other
\* than 0 ("Failed to scrape <url>: ...") or that it exits with status 0
\* after printing its crawl-failed or no-data line, the temporary file
\* being still empty ("Error processing <url>: Expecting value ...").
C17_SubprocessService ==
    service = "simple" =>
        /\ completed = [k \in 1..Len(completed) |-> k]
        /\ \A i \in Units : (unit[i] = "done") = (i <= Len(completed))
        /\ \A i \in Units : unit[i] # "awaiting"
        /\ Len(results) + Len(errors) = Len(completed)
        /\ \A i \in 1..Len(completed) :
              /\ IsError(outcome[i]) = WroteNoRecord(page[i])
              /\ IF IsError(outcome[i])
                 THEN /\ errors[RankAmong(i, TRUE)] = outcome[i]
                      /\ Count(results, outcome[i]) = 0
                 ELSE results[RankAmong(i, FALSE)] = outcome[i]
              /\ IsCrawlPage(page[i]) /\ (IsFetchFailure(page[i]) \/ IsEmptyExtraction(page[i])) =>
                    outcome[i] = [error |-> ErrorProcessing \o urls[i] \o ColonSpace
                                                \o ExpectingValue]
              /\ ~IsCrawlPage(page[i]) /\ Has(page[i], "returncode")
                    /\ page[i].returncode # 0 =>
                    outcome[i] = [error |-> FailedToScrape \o urls[i] \o ColonSpace
                                                \o page[i].stderr]
              /\ IsCrawlPage(page[i])
                    /\ (Has(page[i], "raises") \/ IsNoneContent(page[i])
                          \/ IsMalformed(page[i])) =>
                    outcome[i] = [error |-> FailedToScrape \o urls[i] \o ColonSpace
                                                \o Traceback]
        /\ svc = "returned" =>
              /\ Len(completed) = Len(urls)
              /\ response = ScrapeResponse(results, errors)

\* the service has returned for two URLs: the scraper of the first printed
\* its crawl-failed line and left the file empty, the scraper of the second
\* wrote a record
C17_Witness ==
    /\ service = "simple"
    /\ svc = "returned"
    /\ Len(urls) = 2
    /\ page[1] = PageFetchFailure
    /\ page[2] = PageOf(ItemZino)
    /\ errors = <<[error |-> ErrorProcessing \o urls[1] \o ColonSpace \o ExpectingValue]>>
    /\ Len(results) = 1
    /\ results[1] = outcome[2]
    /\ "notes" \in DOMAIN results[1]

(***************************************************************************)
(* The URL derivation on many URL shapes: the handler is run on one URL    *)
(* whose page holds the record ItemZino.                                   *)
(***************************************************************************)
SegPerfume ==
    <<"p", "e", "r", "f", "u", "m", "e">>

SegDavidoff ==
    <<"D", "a", "v", "i", "d", "o", "f", "f">>

TokZino ==
    <<"Z", "i", "n", "o">>

DotHtml ==
    <<".", "h", "t", "m", "l">>

\* the names of at most MaxTokens tokens joined by "-"
NameTokens == {TokZino, <<"5", "9", "0">>, <<"1", "2">>, <<"5", "t", "h">>}

Names == {JoinStr(<<"-">>, t) : t \in UNION {[1..n -> NameTokens] : n \in 1..MaxTokens}}

\* what follows the name in the URL
\* none, ".html", ".html.bak", ".html?tab=1-2", ".html/reviews-7"
NameEndings ==
    {<<>>, DotHtml, <<".", "h", "t", "m", "l", ".", "b", "a", "k">>,
     <<".", "h", "t", "m", "l", "?", "t", "a", "b", "=", "1", "-", "2">>,
     <<".", "h", "t", "m", "l", "/", "r", "e", "v", "i", "e", "w", "s", "-", "7">>}

\* scheme://host/first/house/name.html and its variants, and URLs with fewer
\* path segments
UrlInputs ==
    {Origin \o <<"/">> \o first \o <<"/">> \o house \o <<"/">> \o name \o ending :
        first \in {SegPerfume, <<"d", "e", "s", "i", "g", "n", "e", "r", "s">>},
        house \in {SegDavidoff, <<"L", "o", "u", "i", "s", "-", "V", "u", "i", "t", "t", "o", "n">>, <<"L", "o", "u", "i", "s", "%", "2", "0", "V", "u", "i", "t", "t", "o", "n">>},
        name \in Names, ending \in NameEndings}
    \cup {Origin, Origin \o <<"/">>, Origin \o <<"/">> \o SegPerfume,
          Origin \o <<"/">> \o SegPerfume \o <<"/">> \o SegDavidoff,
          Origin \o <<"/">> \o SegPerfume \o <<"/">> \o SegDavidoff \o <<"/">>,
          Origin \o <<"/">> \o SegPerfume \o <<"/">> \o SegDavidoff \o <<"/">>
              \o TokZino \o <<"-">>,
          Origin \o <<"/">> \o SegPerfume \o <<"/">> \o SegDavidoff \o <<"/">>
              \o <<"-">> \o <<"5", "9", "0">> \o DotHtml,
          Origin \o <<"/">> \o SegPerfume \o <<"/">> \o SegDavidoff \o <<"/">>
              \o TokZino \o DotHtml \o <<"-">> \o <<"1", "2">> \o DotHtml,
          UrlZino, UrlSwim, UrlDesigner}

InitUrl == \E u \in UrlInputs : InitBatch("api", <<u>>, <<PageOf(ItemZino)>>)

SpecUrl == InitUrl /\ [][NextApi]_vars

(***************************************************************************)
(* Claims about the URL derivation, checked under SpecUrl.                 *)
(***************************************************************************)
\* s without its ".html" ending, s itself when it has no such ending
StripHtmlSuffix(s) ==
    IF Len(s) >= Len(DotHtml) /\ SubSeq(s, Len(s) - Len(DotHtml) + 1, Len(s)) = DotHtml
    THEN SubSeq(s, 1, Len(s) - Len(DotHtml))
    ELSE s

\* the shortest prefix of s that ".html" follows, s itself when ".html" is
\* not in s
BeforeFirstHtml(s) ==
    LET at == {k \in 1..Len(s) : StartsAt(s, k, DotHtml)}
    IN  IF at = {} THEN s
        ELSE SubSeq(s, 1, (CHOOSE k \in at : \A j \in at : k <= j) - 1)

\* the tokens of stem between "-" signs, without the last one when it is
\* made of digits only, joined by single spaces
NameOfStem(stem) ==
    LET tokens == SplitStr(stem, <<"-">>)
        last == tokens[Len(tokens)]
        numeric == last # <<>> /\ \A k \in 1..Len(last) : last[k] \in Digits
    IN  JoinStr(<<" ">>, IF numeric THEN SubSeq(tokens, 1, Len(tokens) - 1) ELSE tokens)

\* segment with every "-" replaced by a space
Spaced(segment) ==
    [k \in 1..Len(segment) |-> IF segment[k] = "-" THEN " " ELSE segment[k]]

\* the URL of the only unit has the shape the derivation applies to
DerivationApplies ==
    /\ Len(urls) = 1
    /\ Len(PathParts(urls[1])) >= 4
    /\ PathParts(urls[1])[2] = SegPerfume

\* C10 as stated: perfume_name is segment[3] without its ".html" suffix,
\* split on "-", without a numeric last token, joined by spaces.
C10_SuffixStripped ==
    Gathered /\ DerivationApplies =>
        /\ IsResult(processed[1])
        /\ processed[1]["perfume_name"] = NameOfStem(StripHtmlSuffix(PathParts(urls[1])[4]))

\* C10 amended: when the decoded path has at least 4 segments and
\* segment[1] is "perfume", house is segment[2] with every "-" replaced by a
\* space and perfume_name is made from what precedes the first ".html" of
\* segment[3]: split on "-", only the last token dropped when it is numeric,
\* the rest joined by single spaces; the response carries both values.
C10_UrlDerivation ==
    Gathered /\ DerivationApplies =>
        /\ IsResult(processed[1])
        /\ processed[1]["house"] = Spaced(PathParts(urls[1])[3])
        /\ processed[1]["perfume_name"] = NameOfStem(BeforeFirstHtml(PathParts(urls[1])[4]))
        /\ svc = "returned" =>
              /\ response.results[1]["house"] = <<processed[1]["house"]>>
              /\ response.results[1]["perfume_name"] = <<processed[1]["perfume_name"]>>

\* the URL .../perfume/Louis-Vuitton/Zino-12-590.html has been answered with
\* house "Louis Vuitton" and perfume_name "Zino 12"
C10_Witness ==
    /\ svc = "returned"
    /\ urls = <<Origin \o <<"/">> \o SegPerfume \o <<"/">> \o <<"L", "o", "u", "i", "s", "-", "V", "u", "i", "t", "t", "o", "n">> \o <<"/">>
                  \o TokZino \o <<"-">> \o <<"1", "2">> \o <<"-">> \o <<"5", "9", "0">> \o DotHtml>>
    /\ Len(response.results) = 1
    /\ response.results[1]["house"]
          = <<<<"L", "o", "u", "i", "s", " ", "V", "u", "i", "t", "t", "o", "n">>>>
    /\ response.results[1]["perfume_name"] = <<<<"Z", "i", "n", "o", " ", "1", "2">>>>

(***************************************************************************)
(* The title cleanup and the URL shape test on many titles, sex strings    *)
(* and URLs: the handler is run on one URL whose page holds one record.    *)
(***************************************************************************)
\* "Zino "
PieceZino ==
    <<"Z", "i", "n", "o", " ">>

\* the titles made of at most MaxPieces pieces
Titles ==
    {JoinStr(<<>>, t) :
        t \in UNION {[1..n -> {PieceZino, SexMen, <<"o">>}] : n \in 0..MaxPieces}}

\* the records with every title, present or not, and every sex string,
\* present or not
TitleItems ==
    {WithChoices([k \in DOMAIN ItemZino \ {"title", "sex"} |-> ItemZino[k]],
                 [title |-> t, sex |-> x]) :
        t \in {<<>>} \cup {<<v>> : v \in Titles},
        x \in {<<>>} \cup {<<v>> : v \in {<<>>, SexMen, <<"f", "o", "r", " ", "w", "o", "m", "e", "n">>, <<"o", "o">>}}}

\* URLs of the perfume shape and URLs that are not
TitleUrls ==
    {UrlZino, UrlSwim, UrlDesigner, Origin,
     Origin \o <<"/">> \o SegPerfume \o <<"/">> \o SegDavidoff,
     Origin \o <<"/">> \o <<"d", "e", "s", "i", "g", "n", "e", "r", "s">> \o <<"/">> \o SegDavidoff \o <<"/">>
         \o TokZino \o DotHtml}

InitTitle ==
    \E item \in TitleItems, u \in TitleUrls : InitBatch("api", <<u>>, <<PageOf(item)>>)

SpecTitle == InitTitle /\ [][NextApi]_vars

(***************************************************************************)
(* Claims about the title cleanup and the URL shape, checked under         *)
(* SpecTitle.                                                              *)
(***************************************************************************)
\* t from index i on, without the occurrences of x met when reading t from
\* left to right, an occurrence starting only after the end of the one
\* before it
RECURSIVE WithoutAllFrom(_, _, _)
WithoutAllFrom(t, x, i) ==
    IF i > Len(t) THEN <<>>
    ELSE IF StartsAt(t, i, x) THEN WithoutAllFrom(t, x, i + Len(x))
    ELSE <<t[i]>> \o WithoutAllFrom(t, x, i + 1)

\* t without its first occurrence of x, t itself when x is not in t
WithoutFirst(t, x) ==
    LET at == {k \in 1..Len(t) : StartsAt(t, k, x)}
    IN  IF at = {} THEN t
        ELSE LET i == CHOOSE k \in at : \A j \in at : k <= j
             IN  [k \in 1..(Len(t) - Len(x)) |-> IF k < i THEN t[k] ELSE t[k + Len(x)]]

\* x occurs in t
OccursIn(x, t) == \E k \in 1..Len(t) : StartsAt(t, k, x)

\* the cleanup applies to the record of the only unit: the URL has the
\* perfume shape, sex and title are present and sex is not empty
CleanupApplies ==
    /\ DerivationApplies
    /\ {"sex", "title"} \subseteq DOMAIN RawItem(1)
    /\ RawItem(1)["sex"] # <<>>

\* C11 as stated: the output title is the input title without the first
\* occurrence of sex, later occurrences staying.
C11_FirstOccurrenceRemoved ==
    Gathered /\ CleanupApplies =>
        /\ IsResult(processed[1])
        /\ processed[1]["title"] = WithoutFirst(RawItem(1)["title"], RawItem(1)["sex"])

\* C11 amended: the output title is the input title without every
\* occurrence of sex, read from left to right without overlap, and nothing
\* else is changed: no trimming, and a title sex does not occur in is
\* unchanged; the response carries that title.
C11_TitleCleanup ==
    Gathered /\ CleanupApplies =>
        /\ IsResult(processed[1])
        /\ processed[1]["title"]
              = WithoutAllFrom(RawItem(1)["title"], RawItem(1)["sex"], 1)
        /\ ~OccursIn(RawItem(1)["sex"], RawItem(1)["title"]) =>
              processed[1]["title"] = RawItem(1)["title"]
        /\ DOMAIN processed[1] \ {"title", "house", "perfume_name"}
              = DOMAIN Normalize(RawItem(1), Origin).item \ {"title"}
        /\ \A k \in DOMAIN processed[1] \ {"title", "house", "perfume_name"} :
              processed[1][k] = Normalize(RawItem(1), Origin).item[k]
        /\ svc = "returned" => response.results[1]["title"] = <<processed[1]["title"]>>

\* the title "Zino for menfor men" with sex "for men" has been answered
\* with the title "Zino "
C11_Witness ==
    /\ svc = "returned"
    /\ urls = <<UrlZino>>
    /\ {"sex", "title"} \subseteq DOMAIN RawItem(1)
    /\ RawItem(1)["sex"] = SexMen
    /\ RawItem(1)["title"] = PieceZino \o SexMen \o SexMen
    /\ Len(response.results) = 1
    /\ response.results[1]["title"] = <<PieceZino>>


\* C12: a URL whose decoded path has fewer than 4 segments or whose
\* segment[1] is not "perfume" leaves house and perfume_name absent and
\* the title as extracted, also when sex occurs in the title; in every
\* record house and perfume_name are both present or both absent.
C12_NonMatchingShape ==
    Gathered /\ Len(urls) = 1 =>
        /\ IsResult(processed[1])
        /\ ("house" \in DOMAIN processed[1]) = ("perfume_name" \in DOMAIN processed[1])
        /\ ("house" \in DOMAIN processed[1]) = DerivationApplies
        /\ ~DerivationApplies =>
              /\ ("title" \in DOMAIN processed[1]) = ("title" \in DOMAIN RawItem(1))
              /\ "title" \in DOMAIN RawItem(1) =>
                    processed[1]["title"] = RawItem(1)["title"]
        /\ svc = "returned" =>
              /\ (response.results[1]["house"] = <<>>)
                    = (response.results[1]["perfume_name"] = <<>>)
              /\ ~DerivationApplies =>
                    /\ response.results[1]["house"] = <<>>
                    /\ "title" \in DOMAIN RawItem(1) =>
                          response.results[1]["title"] = <<RawItem(1)["title"]>>

\* the URL .../designers/Dior.html with the title "Zino for men" and sex
\* "for men" has been answered with that title and no house
C12_Witness ==
    /\ svc = "returned"
    /\ urls = <<UrlDesigner>>
    /\ {"sex", "title"} \subseteq DOMAIN RawItem(1)
    /\ RawItem(1)["sex"] = SexMen
    /\ RawItem(1)["title"] = PieceZino \o SexMen
    /\ Len(response.results) = 1
    /\ response.results[1]["title"] = <<PieceZino \o SexMen>>
    /\ response.results[1]["house"] = <<>>
    /\ response.results[1]["perfume_name"] = <<>>


(***************************************************************************)
(* The command line program of app.py on one URL, with and without an      *)
(* output path.                                                            *)
(***************************************************************************)
\* "out.json"
OutPath ==
    <<"o", "u", "t", ".", "j", "s", "o", "n">>

\* --output absent, given as the empty string, given as a path
OutputChoices == {<<>>, <<<<>>>>, <<OutPath>>}

\* the (URL, page) pairs the program is run on
CliInputs ==
    UnitInputs \cup {<<UrlSwim, PageOf(item)>> : item \in AccordItems}

InitCli ==
    \E in \in CliInputs, out \in OutputChoices, file \in {NoFile, EmptyFile} :
        InitWith("cli", <<in[1]>>, <<in[2]>>, out, file)

SpecCli == InitCli /\ [][NextCli]_vars

(***************************************************************************)
(* Claims about the command line program, checked under SpecCli.           *)
(***************************************************************************)
\* a file has been written at the output path
FileWritten == outfile.exists /\ outfile.written

\* C14: the output file is written iff an output path was given and the
\* extraction produced a record, and then it holds the record that was
\* printed and returned, which is normalized; when the crawl failed or no
\* data was extracted, one error line is printed, no file is written and
\* result_data is None; when an exception ends the program, nothing is
\* printed or written.
C14_CliOutput ==
    /\ FileWritten =
          /\ Truthy(output_file)
          /\ svc \in {"leaving", "returned"}
          /\ result_data # <<>>
    /\ FileWritten => outfile.json = result_data[1]
    /\ result_data # <<>> =>
          /\ svc \in {"leaving", "returned"}
          /\ Len(stdout) = 2
          /\ stdout[1] = [text |-> ResultsHeader]
          /\ stdout[2] = [text |-> ExtractedContent, json |-> result_data[1]]
          /\ DOMAIN result_data[1] \cap RawOnlyKeys = {}
          /\ "notes" \in DOMAIN result_data[1]
          /\ ~IsFetchFailure(page[1])
          /\ ~IsEmptyExtraction(page[1])
          /\ ~IsMalformed(page[1])
    /\ svc \in {"leaving", "returned"} /\ IsFetchFailure(page[1]) =>
          /\ stdout = <<[text |-> ErrorCrawlFailed \o page[1].error_message]>>
          /\ result_data = <<>>
    /\ svc \in {"leaving", "returned"} /\ IsEmptyExtraction(page[1]) =>
          /\ stdout = <<[text |-> ErrorNoData]>>
          /\ result_data = <<>>
    /\ svc \in {"leaving", "returned"} /\ result_data = <<>> =>
          IsFetchFailure(page[1]) \/ IsEmptyExtraction(page[1])
    /\ svc \in {"start", "awaiting", "raising", "failed"} =>
          /\ stdout = <<>>
          /\ result_data = <<>>
    /\ svc \in {"returned", "failed"} => session = "closed"

\* the program has run with an output path on a page holding a record, and
\* the file holds the record that was printed
C14_Witness ==
    /\ service = "cli"
    /\ svc = "returned"
    /\ output_file = <<OutPath>>
    /\ page[1] = PageOf(ItemZino)
    /\ result_data # <<>>
    /\ outfile = FileOf(result_data[1])
    /\ stdout[2] = [text |-> ExtractedContent, json |-> outfile.json]


(***************************************************************************)
(* The three copies of the normalization on the same record and URL.       *)
(***************************************************************************)
\* the (URL, record) pairs the copies are run on: every record of notes and
\* accords, every title and sex, and URLs of the perfume shape (house
\* "Louis%20Vuitton") with every name and ending and of other shapes
CopyInputs ==
    {<<UrlZino, item>> : item \in NoteItems \cup AccordItems}
    \cup {<<u, item>> : u \in TitleUrls, item \in TitleItems}
    \cup {<<u, ItemZino>> : u \in TitleUrls}
    \cup {<<Origin \o <<"/">> \o SegPerfume \o <<"/">>
              \o <<"L", "o", "u", "i", "s", "%", "2", "0", "V", "u", "i", "t", "t", "o", "n">>
              \o <<"/">> \o name \o ending, ItemZino>> :
            name \in Names, ending \in NameEndings}

InitCopies ==
    \E in \in CopyInputs :
        InitWith("copies", <<in[1], in[1], in[1]>>, <<PageOf(in[2])>>, <<>>, NoFile)

SpecCopies == InitCopies /\ [][NextCopies]_vars

\* C16: for a raw record whose accords entries all have a text key, the
\* record process_url returns, the first record run_extraction prints and
\* the record extract_fragrance_data returns are the same dict: same keys
\* and the same value under every key.
C16_CopiesAgree ==
    service = "copies" /\ (\A i \in Units : unit[i] = "done") /\ WellFormedAccords(1) =>
        /\ IsResult(outcome[1].copy)
        /\ Has(outcome[2], "printed")
        /\ Has(outcome[3], "result_data")
        /\ outcome[2].printed = <<outcome[1].copy>>
        /\ outcome[3].result_data = <<outcome[1].copy>>
        /\ DOMAIN outcome[3].result_data[1] = DOMAIN outcome[2].printed[1]
        /\ \A k \in {"accords", "notes", "house", "perfume_name", "title"}
                    \cap DOMAIN outcome[1].copy :
              /\ outcome[2].printed[1][k] = outcome[1].copy[k]
              /\ outcome[3].result_data[1][k] = outcome[1].copy[k]

\* the three copies have been run on the record with flags, note lists
\* and accords and on a perfume URL, and each made a record with notes,
\* house and perfume_name
C16_Witness ==
    /\ service = "copies"
    /\ \A i \in Units : unit[i] = "done"
    /\ urls[1] = UrlZino
    /\ page[1] = PageOf(ItemZino)
    /\ {"notes", "house", "perfume_name", "accords"} \subseteq DOMAIN outcome[1].copy
    /\ outcome[2].printed[1]["notes"] = [top |-> SubSeq(TopEntries, 1, 1)]
    /\ outcome[3].result_data[1]["house"] = SegDavidoff


(***************************************************************************)
(* The batch endpoint of api.py under fair scheduling: the event loop runs *)
(* every coroutine that can run, and every awaited call of the crawler     *)
(* returns.                                                                *)
(***************************************************************************)
\* the batches followed to their end: every URL is served a failed fetch,
\* a raising fetch, a record or a record whose accords are malformed
InitLive ==
    \E pages \in UNION {[1..n -> {PageFetchFailure, PageRaises, PageOf(ItemZino),
                                  PageOf(ItemBadAccords)}] : n \in 0..MaxUrls} :
        InitBatch("api", [i \in 1..Len(pages) |-> UrlZino], pages)

\* line 187: every arun call awaited on the session returns, with success
\* or with failure
EveryFetchReturns ==
    \A i \in 1..MaxUrls :
        (i \in Units /\ unit[i] = "awaiting") ~> (i \in Units /\ unit[i] = "done")

\* lines 306-317 run on the event loop of asyncio, which runs every
\* coroutine that is ready to run
Fairness ==
    /\ WF_vars(Enter)
    /\ WF_vars(GatherReturn)
    /\ WF_vars(ExitSession)
    /\ WF_vars(Return)
    /\ \A i \in 1..MaxUrls : WF_vars(i \in Units /\ StartUnit(i))

SpecLive == InitLive /\ [][NextApi]_vars /\ Fairness /\ EveryFetchReturns

====
